---- MODULE Spec2Model ----
(***************************************************************************)
(* Real-time ensemble detection engine of suricata-ml-ids                  *)
(* (services/realtime-detector): weighted voting, threat scoring, running  *)
(* statistics and the model registry.                                      *)
(*                                                                         *)
(* Python floats are modelled as exact non-negative rationals [n, d] in    *)
(* lowest terms; Python dicts as sequences of <<key, value>> pairs in      *)
(* insertion order.                                                        *)
(***************************************************************************)
EXTENDS Integers, Sequences, FiniteSets, TLC

VARIABLES
    sc,         \* inputs of one call checked as a function: registry, weights,
                \* features and model behaviour, or the models directory
    res,        \* outcome of that call
    mm,         \* ModelManager: models, model_info, model_weights, feature_names
    loader,     \* load_models: calls made, files left in a call under way
    de,         \* DetectorEngine: initialized, model_weights, feature_names
    stats,      \* DetectorEngine.stats
    req,        \* per request: position, inputs and DetectionResult
    snapshots,  \* dicts returned by get_stats
    hist,       \* history: recorded detections, catalogs, reload count
    active_connections,  \* WebSocketManager.active_connections
    sockets     \* per WebSocket: state of the connection, messages it received

vars == <<sc, res, mm, loader, de, stats, req, snapshots, hist,
          active_connections, sockets>>

----------------------------------------------------------------------------
(* Bounds *)

MaxModels == 3
MaxRequests == 2
MaxSnapshots == 1
MaxLoads == 2
MaxReloadRequests == 1
MaxSockets == 3
MaxFiles == 3
MaxBatch == 2

----------------------------------------------------------------------------
(* Exact rationals standing for Python floats *)

RECURSIVE GCD(_, _)
GCD(a, b) == IF b = 0 THEN a ELSE GCD(b, a % b)

Rat(n, d) == LET g == GCD(n, d) IN [n |-> n \div g, d |-> d \div g]

Zero == Rat(0, 1)
One == Rat(1, 1)
RAdd(x, y) == Rat(x.n * y.d + y.n * x.d, x.d * y.d)
RMul(x, y) == Rat(x.n * y.n, x.d * y.d)
RDivInt(x, k) == Rat(x.n, x.d * k)
RDiv(x, y) == Rat(x.n * y.d, x.d * y.n)
RLt(x, y) == x.n * y.d < y.n * x.d
RLe(x, y) == x.n * y.d <= y.n * x.d
RGt(x, y) == RLt(y, x)
RMin(x, y) == IF RLe(x, y) THEN x ELSE y

----------------------------------------------------------------------------
(* Python dict: insertion-ordered sequence of <<key, value>> *)

EmptyDict == <<>>
DictKeys(d) == {d[i][1] : i \in 1..Len(d)}
DictHas(d, k) == k \in DictKeys(d)
DictGet(d, k, default) ==
    IF DictHas(d, k)
    THEN d[CHOOSE i \in 1..Len(d) : d[i][1] = k][2]
    ELSE default
DictPut(d, k, v) ==
    IF DictHas(d, k)
    THEN [i \in 1..Len(d) |-> IF d[i][1] = k THEN <<k, v>> ELSE d[i]]
    ELSE Append(d, <<k, v>>)

----------------------------------------------------------------------------
(* Input domains *)

AllNames == <<"decision_tree", "knn", "ensemble", "svm", "mlp">>

WeightValues == {Rat(1, 1), Rat(2, 1)}

\* max class probability reported by predict_proba, per predicted label
ProbaValues(l) ==
    IF l = "attack"
    THEN {Rat(0, 1), Rat(6, 10), Rat(9, 10)}
    ELSE {Rat(0, 1), Rat(8, 10)}

\* What one model does when queried: predict raises, or yields a label
\* (the integer label 1 is written "int_1"); predict_proba is absent,
\* raises, or yields probabilities whose maximum is maxp.
ModelOutcomes ==
    {[raises |-> TRUE, label |-> "none", proba |-> "absent", maxp |-> Zero]}
    \cup UNION {{[raises |-> FALSE, label |-> l, proba |-> "value", maxp |-> p] :
                    p \in ProbaValues(l)} : l \in {"attack", "normal"}}
    \cup {[raises |-> FALSE, label |-> l, proba |-> "absent", maxp |-> Zero] :
            l \in {"attack", "normal", "int_1"}}
    \cup {[raises |-> FALSE, label |-> "attack", proba |-> "raises", maxp |-> Zero]}

Feat(flags, pps, syn) ==
    <<<<"packets_per_second", pps>>, <<"tcp_syn_ratio", syn>>,
      <<"suspicious_flags", flags>>>>

FeatureInputs ==
    {Feat(Rat(5, 1), Rat(100, 1), Rat(8, 10)),
     Feat(Rat(6, 1), Rat(100, 1), Rat(9, 10)),
     Feat(Rat(10, 1), Rat(150, 1), Rat(9, 10))}

----------------------------------------------------------------------------
(* DetectorEngine scoring *)

\* _get_model_prediction: (label, confidence) of one model
get_model_prediction(o) ==
    IF o.raises
    THEN <<"unknown", Zero>>
    ELSE <<o.label, IF o.proba = "value" THEN o.maxp ELSE Rat(1, 2)>>

\* Mutant: the loop over the models ends at the first one that fails
QueryModelsStops(names, behaviour) ==
    LET failed == {i \in 1..Len(names) : behaviour[i].raises}
        last == IF failed = {} THEN Len(names)
                ELSE CHOOSE i \in failed : \A j \in failed : i <= j
    IN [predictions |->
           [i \in 1..last |-> <<names[i], get_model_prediction(behaviour[i])[1]>>],
        confidences |->
           [i \in 1..last |-> <<names[i], get_model_prediction(behaviour[i])[2]>>]]

\* detect, lines 55-68: query every model of the registry in dict order;
\* behaviour[i] is what the i-th model does on this call
QueryModels(names, behaviour) ==
    [predictions |->
        [i \in 1..Len(names) |-> <<names[i], get_model_prediction(behaviour[i])[1]>>],
     confidences |->
        [i \in 1..Len(names) |-> <<names[i], get_model_prediction(behaviour[i])[2]>>]]

\* Mutant: the weight is left out of the vote
WeightedVoteUnweighted(confidence, weight) == confidence

\* The weighted confidence a model contributes to its label
WeightedVote(confidence, weight) == RMul(confidence, weight)

\* Mutant: "unknown" predictions are not skipped
VotesAll(prediction) == TRUE

\* Whether a prediction takes part in the vote
Votes(prediction) == prediction # "unknown"

RECURSIVE VoteLoop(_, _, _, _, _)
VoteLoop(preds, confs, weights, i, acc) ==
    IF i > Len(preds)
    THEN acc
    ELSE LET name == preds[i][1]
             prediction == preds[i][2]
             wc == WeightedVote(DictGet(confs, name, Zero),
                                DictGet(weights, name, One))
         IN IF Votes(prediction)
            THEN VoteLoop(preds, confs, weights, i + 1,
                    [counts |-> DictPut(acc.counts, prediction,
                                    RAdd(DictGet(acc.counts, prediction, Zero), wc)),
                     total |-> RAdd(acc.total, wc)])
            ELSE VoteLoop(preds, confs, weights, i + 1, acc)

\* max(items, key = value): the first item holding the largest value
RECURSIVE MaxByValue(_, _, _)
MaxByValue(d, i, best) ==
    IF i > Len(d)
    THEN best
    ELSE MaxByValue(d, i + 1, IF RGt(d[i][2], best[2]) THEN d[i] ELSE best)

calculate_ensemble_prediction(preds, confs, weights) ==
    LET t == VoteLoop(preds, confs, weights, 1, [counts |-> EmptyDict, total |-> Zero])
    IN IF t.counts = EmptyDict
       THEN [prediction |-> "unknown", confidence |-> Zero]
       ELSE LET best == MaxByValue(t.counts, 2, t.counts[1])
            IN [prediction |-> best[1],
                confidence |-> IF RGt(t.total, Zero) THEN RDiv(best[2], t.total) ELSE Zero]

\* Mutant: the thresholds are met by equality
calculate_anomaly_score_ge(features) ==
    LET a1 == IF RLe(Rat(5, 1), DictGet(features, "suspicious_flags", Zero))
              THEN Rat(3, 10) ELSE Zero
        a2 == IF RLe(Rat(100, 1), DictGet(features, "packets_per_second", Zero))
              THEN Rat(2, 10) ELSE Zero
        a3 == IF RLe(Rat(8, 10), DictGet(features, "tcp_syn_ratio", Zero))
              THEN Rat(2, 10) ELSE Zero
    IN RMin(One, RAdd(RAdd(a1, a2), a3))

calculate_anomaly_score(features) ==
    LET a1 == IF RGt(DictGet(features, "suspicious_flags", Zero), Rat(5, 1))
              THEN Rat(3, 10) ELSE Zero
        a2 == IF RGt(DictGet(features, "packets_per_second", Zero), Rat(100, 1))
              THEN Rat(2, 10) ELSE Zero
        a3 == IF RGt(DictGet(features, "tcp_syn_ratio", Zero), Rat(8, 10))
              THEN Rat(2, 10) ELSE Zero
    IN RMin(One, RAdd(RAdd(a1, a2), a3))

\* Mutant: only the string label counts as a threat
IsThreatLabelAttackOnly(prediction) == prediction = "attack"

\* prediction == "attack" or prediction == 1
IsThreatLabel(prediction) == prediction = "attack" \/ prediction = "int_1"

RECURSIVE ThreatLoop(_, _, _, _, _)
ThreatLoop(preds, confs, weights, i, acc) ==
    IF i > Len(preds)
    THEN acc
    ELSE LET name == preds[i][1]
             prediction == preds[i][2]
         IN IF Votes(prediction)
            THEN ThreatLoop(preds, confs, weights, i + 1,
                    [total_models |-> acc.total_models + 1,
                     threat_indicators |->
                        IF IsThreatLabel(prediction)
                        THEN RAdd(acc.threat_indicators,
                                  RMul(DictGet(confs, name, Zero),
                                       DictGet(weights, name, One)))
                        ELSE acc.threat_indicators])
            ELSE ThreatLoop(preds, confs, weights, i + 1, acc)

\* Mutant: the sum is not clamped to 1.0
CombineScoresNoClamp(base, anomaly) == RAdd(base, RMul(anomaly, Rat(2, 10)))

\* Mutant: the anomaly score is added unscaled
CombineScoresUnscaled(base, anomaly) == RMin(One, RAdd(base, anomaly))

\* final_threat_score = min(1.0, base_threat_score + anomaly_score * 0.2)
CombineScores(base, anomaly) == RMin(One, RAdd(base, RMul(anomaly, Rat(2, 10))))

calculate_threat_score(preds, confs, weights, features) ==
    LET t == ThreatLoop(preds, confs, weights, 1,
                        [total_models |-> 0, threat_indicators |-> Zero])
        base == IF t.total_models > 0
                THEN RDivInt(t.threat_indicators, t.total_models)
                ELSE Zero
    IN CombineScores(base, calculate_anomaly_score(features))

\* Mutant: once a threat has been counted every later detection is scored
\* as a threat
DetectScoreAlerted(names, weights, features, behaviour) ==
    LET q == QueryModels(names, behaviour)
        e == calculate_ensemble_prediction(q.predictions, q.confidences, weights)
    IN [prediction |-> e.prediction,
        confidence |-> e.confidence,
        threat_score |-> IF stats.threats_detected > 0
                         THEN One
                         ELSE calculate_threat_score(q.predictions, q.confidences,
                                                     weights, features),
        model_predictions |-> q.predictions,
        model_confidences |-> q.confidences]

\* detect, lines 52-81 and 87-97: the DetectionResult without its timing
DetectScore(names, weights, features, behaviour) ==
    LET q == QueryModels(names, behaviour)
        e == calculate_ensemble_prediction(q.predictions, q.confidences, weights)
    IN [prediction |-> e.prediction,
        confidence |-> e.confidence,
        threat_score |-> calculate_threat_score(q.predictions, q.confidences,
                                                weights, features),
        model_predictions |-> q.predictions,
        model_confidences |-> q.confidences]

----------------------------------------------------------------------------
(* FeatureProcessor *)

required_features ==
    <<"total_packets", "total_bytes", "avg_packet_size", "duration",
      "tcp_ratio", "udp_ratio", "icmp_ratio", "packets_per_second",
      "unique_src_ips", "unique_dst_ips", "tcp_syn_ratio",
      "well_known_ports", "high_ports", "payload_entropy",
      "suspicious_flags", "http_requests", "dns_queries", "tls_handshakes">>

RangeTo(max) == [min |-> Zero, max |-> Rat(max, 1)]

feature_ranges ==
    <<<<"total_packets", RangeTo(10000)>>, <<"total_bytes", RangeTo(1000000)>>,
      <<"avg_packet_size", RangeTo(1500)>>, <<"duration", RangeTo(3600)>>,
      <<"tcp_ratio", RangeTo(1)>>, <<"udp_ratio", RangeTo(1)>>,
      <<"icmp_ratio", RangeTo(1)>>, <<"packets_per_second", RangeTo(1000)>>,
      <<"unique_src_ips", RangeTo(1000)>>, <<"unique_dst_ips", RangeTo(1000)>>,
      <<"tcp_syn_ratio", RangeTo(1)>>, <<"well_known_ports", RangeTo(100)>>,
      <<"high_ports", RangeTo(1000)>>, <<"payload_entropy", RangeTo(8)>>,
      <<"suspicious_flags", RangeTo(100)>>, <<"http_requests", RangeTo(1000)>>,
      <<"dns_queries", RangeTo(1000)>>, <<"tls_handshakes", RangeTo(1000)>>>>

\* A raw value: a finite float v, NaN, an infinity, None, or a string that
\* float() rejects
Num(n, d) == [kind |-> "float", v |-> Rat(n, d)]
NaN == [kind |-> "nan", v |-> Zero]
Inf == [kind |-> "inf", v |-> Zero]
None == [kind |-> "none", v |-> Zero]
Text == [kind |-> "str", v |-> Zero]
NegInf == [kind |-> "-inf", v |-> Zero]
\* An int beyond the range of a float, such as 10**400: float(value) raises
\* OverflowError
BigInt == [kind |-> "bigint", v |-> Zero]

\* float(value) raises an exception other than ValueError and TypeError, which
\* the except clause of _validate_and_clean_feature lets through
coercion_raises(value) == value.kind = "bigint"

\* Mutant: a value above the declared maximum is let through
validate_and_clean_feature_no_max(feature_name, value) ==
    IF value.kind # "float"
    THEN Zero
    ELSE IF DictHas(feature_ranges, feature_name)
         THEN LET r == DictGet(feature_ranges, feature_name, RangeTo(0))
              IN IF RLt(value.v, r.min) THEN r.min ELSE value.v
         ELSE value.v

\* Mutant: a value inside its range is normalised by the maximum
validate_and_clean_feature_scaled(feature_name, value) ==
    IF value.kind # "float"
    THEN Zero
    ELSE IF DictHas(feature_ranges, feature_name)
         THEN LET r == DictGet(feature_ranges, feature_name, RangeTo(0))
              IN IF RLt(value.v, r.min) THEN r.min
                 ELSE IF RGt(value.v, r.max) THEN r.max
                 ELSE RDiv(value.v, r.max)
         ELSE value.v

\* The value _validate_and_clean_feature returns, when it returns
validate_and_clean_feature(feature_name, value) ==
    IF value.kind # "float"
    THEN Zero
    ELSE IF DictHas(feature_ranges, feature_name)
         THEN LET r == DictGet(feature_ranges, feature_name, RangeTo(0))
              IN IF RLt(value.v, r.min) THEN r.min
                 ELSE IF RGt(value.v, r.max) THEN r.max
                 ELSE value.v
         ELSE value.v

\* process_features, lines 55-60: every required feature, absent ones as 0.0
CleanRequired(features) ==
    [i \in 1..Len(required_features) |->
        <<required_features[i],
          validate_and_clean_feature(required_features[i],
              DictGet(features, required_features[i], Num(0, 1)))>>]

IsRequired(name) == \E i \in 1..Len(required_features) : required_features[i] = name

\* Mutant: only the required features are returned
CleanExtraNone(features) == <<>>

\* process_features, lines 63-66: the other features of the request, in its order
CleanExtra(features) ==
    LET extra == SelectSeq(features, LAMBDA e : ~IsRequired(e[1]))
    IN [i \in 1..Len(extra) |->
           <<extra[i][1], validate_and_clean_feature(extra[i][1], extra[i][2])>>]

\* The mapping process_features returns, when it returns
process_features(features) == CleanRequired(features) \o CleanExtra(features)

\* A call of process_features: every value of the request is coerced, the
\* required ones at line 57 and the others at line 65; an exception that
\* escapes the coercion is logged and raised again at lines 72-74
process_features_call(features) ==
    IF \E i \in 1..Len(features) : coercion_raises(features[i][2])
    THEN [raised |-> TRUE, features |-> EmptyDict]
    ELSE [raised |-> FALSE, features |-> process_features(features)]

\* _prepare_feature_vector: list(features.values()) when the engine has no
\* feature names, else one element per feature name, 0.0 for an absent one
prepare_feature_vector(feature_names, features) ==
    IF feature_names = <<>>
    THEN [i \in 1..Len(features) |-> features[i][2]]
    ELSE [i \in 1..Len(feature_names) |-> DictGet(features, feature_names[i], Zero)]

----------------------------------------------------------------------------
(* Stats *)

\* Mutant: the threshold is met by equality
IsThreatGe(threat_score) == RLe(Rat(1, 2), threat_score)

\* threat_score > 0.5
IsThreat(threat_score) == RGt(threat_score, Rat(1, 2))

\* Mutant: the recording is skipped
update_stats_skipped(s, processing_time, threat_score) == s

\* Mutant: the total is overwritten instead of accumulated
update_stats_overwrite(s, processing_time, threat_score) ==
    [detections_performed |-> s.detections_performed + 1,
     total_processing_time |-> processing_time,
     avg_processing_time_ms |-> RDivInt(processing_time, s.detections_performed + 1),
     threats_detected |-> s.threats_detected + (IF IsThreat(threat_score) THEN 1 ELSE 0)]

\* Mutant: the average is taken over the count before the increment
update_stats_stale_avg(s, processing_time, threat_score) ==
    [detections_performed |-> s.detections_performed + 1,
     total_processing_time |-> RAdd(s.total_processing_time, processing_time),
     avg_processing_time_ms |->
        IF s.detections_performed = 0
        THEN Zero
        ELSE RDivInt(RAdd(s.total_processing_time, processing_time),
                     s.detections_performed),
     threats_detected |-> s.threats_detected + (IF IsThreat(threat_score) THEN 1 ELSE 0)]

\* _update_stats
update_stats(s, processing_time, threat_score) ==
    LET n == s.detections_performed + 1
        total == RAdd(s.total_processing_time, processing_time)
    IN [detections_performed |-> n,
        total_processing_time |-> total,
        avg_processing_time_ms |-> RDivInt(total, n),
        threats_detected |-> s.threats_detected + (IF IsThreat(threat_score) THEN 1 ELSE 0)]

\* Mutant: get_stats hands out the live dict
get_stats_live(s) == [live |-> TRUE, fields |-> s]

\* get_stats: self.stats.copy(), a new dict
get_stats(s) == [live |-> FALSE, fields |-> s]

\* What a dict handed out by get_stats shows when it is read
Shown(snapshot) == IF snapshot.live THEN stats ELSE snapshot.fields

----------------------------------------------------------------------------
(* ModelManager *)

\* Artifact files: the stem left by filename.replace('.joblib', '') and the
\* algorithm substrings the name contains
KnownFiles ==
    <<<<"decision_tree_v1.joblib", [stem |-> "decision_tree_v1", parts |-> {"decision_tree"}]>>,
      <<"decision_tree_v2.joblib", [stem |-> "decision_tree_v2", parts |-> {"decision_tree"}]>>,
      <<"knn.joblib", [stem |-> "knn", parts |-> {"knn"}]>>,
      <<"knn_ensemble.joblib", [stem |-> "knn_ensemble", parts |-> {"knn", "ensemble"}]>>,
      <<"svm.joblib", [stem |-> "svm", parts |-> {}]>>>>

extract_model_name(filename) ==
    LET f == DictGet(KnownFiles, filename, [stem |-> filename, parts |-> {}])
    IN IF "decision_tree" \in f.parts THEN "decision_tree"
       ELSE IF "knn" \in f.parts THEN "knn"
       ELSE IF "ensemble" \in f.parts THEN "ensemble"
       ELSE f.stem

\* type(model).__name__.lower(), matched by substring
detect_algorithm(type_name) ==
    CASE type_name = "DecisionTreeClassifier" -> "decision_tree"
      [] type_name = "KNeighborsClassifier" -> "knn"
      [] type_name = "VotingClassifier" -> "ensemble"
      [] type_name = "Pipeline" -> "pipeline"
      [] type_name = "SVC" -> "svc"
      [] OTHER -> "unknown"

\* A file of the models directory: loading it succeeds (fault "none"),
\* joblib.load raises ("load"), or stat() raises after the load ("stat");
\* does is what the fitted predictor stored in it yields when queried
File(filename, type_name, fault, does) ==
    [filename |-> filename, type |-> type_name, fault |-> fault, does |-> does]

\* load_models, lines 41-65: the loop body for one file; gen, the number of
\* the load_models call, tells the objects of two loads of a file apart
LoadFile(m, file, gen) ==
    LET model_name == extract_model_name(file.filename)
        model == [file |-> file.filename, gen |-> gen, does |-> file.does]
    IN IF file.fault = "load"
       THEN m
       ELSE IF file.fault = "stat"
       THEN [m EXCEPT !.models = DictPut(m.models, model_name, model)]
       ELSE [m EXCEPT
               !.models = DictPut(m.models, model_name, model),
               !.model_info = DictPut(m.model_info, model_name,
                                 [filename |-> file.filename,
                                  algorithm |-> detect_algorithm(file.type)]),
               !.model_weights = DictPut(m.model_weights, model_name, One)]

RECURSIVE LoadFiles(_, _, _)
LoadFiles(m, files, gen) ==
    IF files = <<>>
    THEN m
    ELSE LoadFiles(LoadFile(m, Head(files), gen), Tail(files), gen)

\* load_models, lines 39 and 60: the count logged at line 67, one for each
\* file whose loop body ran to its end
RECURSIVE loaded_count(_)
loaded_count(files) ==
    IF files = <<>>
    THEN 0
    ELSE (IF Head(files).fault = "none" THEN 1 ELSE 0) + loaded_count(Tail(files))

\* load_models, lines 29-37: the files the loop will visit
Listing(dir) == IF dir.exists THEN dir.files ELSE <<>>

\* Mutant: the loop yields to the event loop after every file
LoopBatchOne(files) == IF files = <<>> THEN <<>> ELSE <<Head(files)>>

\* The files the loop of load_models handles before the coroutine can be
\* suspended: all of them, the loop body holds no await
LoopBatch(files) == files

\* The models and effective weights a detection is computed from
Catalog(models, weights) ==
    [i \in 1..Len(models) |->
        <<models[i][1], models[i][2], DictGet(weights, models[i][1], One)>>]

----------------------------------------------------------------------------
(* Service state after construction *)

ServiceInit ==
    /\ mm = [models |-> EmptyDict, model_info |-> EmptyDict,
             model_weights |-> EmptyDict, feature_names |-> <<>>]
    /\ loader = [active |-> FALSE, remaining |-> <<>>, calls |-> 0]
    /\ de = [initialized |-> FALSE, model_weights |-> EmptyDict, feature_names |-> <<>>]
    /\ stats = [detections_performed |-> 0, threats_detected |-> 0,
                total_processing_time |-> Zero, avg_processing_time_ms |-> Zero]
    /\ req = [r \in 1..MaxRequests |-> [pc |-> "idle"]]
    /\ snapshots = <<>>
    /\ hist = [times |-> <<>>, catalogs |-> <<>>]
    /\ active_connections = <<>>
    /\ sockets = [c \in 1..MaxSockets |-> [state |-> "new", got |-> <<>>]]

----------------------------------------------------------------------------
(* Scoring as a function of its inputs: the registry, weights and features *)
(* are drawn at the start, the models' behaviour when they are queried.    *)

Registries ==
    {[models |-> SubSeq(AllNames, 1, k),
      model_weights |-> [i \in 1..k |-> <<AllNames[i], w[i]>>]] :
        k \in 0..MaxModels, w \in [1..MaxModels -> WeightValues]}

InitScore ==
    /\ \E r \in Registries, f \in FeatureInputs :
          sc = [models |-> r.models, model_weights |-> r.model_weights,
                features |-> f, behaviour |-> <<>>]
    /\ res = [done |-> FALSE]
    /\ ServiceInit

Score ==
    /\ ~res.done
    /\ \E b \in [1..Len(sc.models) -> ModelOutcomes] :
          /\ sc' = [sc EXCEPT !.behaviour = b]
          /\ res' = [done |-> TRUE,
                     result |-> DetectScore(sc.models, sc.model_weights, sc.features, b)]
    /\ UNCHANGED <<mm, loader, de, stats, req, snapshots, hist, active_connections, sockets>>

NextScore == Score

SpecScore == InitScore /\ [][NextScore]_vars

----------------------------------------------------------------------------
(* The service: startup, reload, /detect requests and /stats on one event  *)
(* loop. A coroutine runs without interruption up to an await that really  *)
(* suspends; detect, load_models and get_stats hold none.                  *)

AttackHard == [raises |-> FALSE, label |-> "attack", proba |-> "absent", maxp |-> Zero]
AttackSoft == [raises |-> FALSE, label |-> "attack", proba |-> "value", maxp |-> Rat(9, 10)]

DtFile == File("decision_tree_v1.joblib", "DecisionTreeClassifier", "none", AttackHard)
KnnFile == File("knn.joblib", "KNeighborsClassifier", "none", AttackSoft)

ServingDirs ==
    {[exists |-> FALSE, files |-> <<>>],
     [exists |-> TRUE, files |-> <<DtFile>>],
     [exists |-> TRUE, files |-> <<DtFile, KnnFile>>]}

ServingInputs ==
    {EmptyDict,
     <<<<"suspicious_flags", Num(10, 1)>>, <<"packets_per_second", Num(150, 1)>>,
       <<"tcp_syn_ratio", NaN>>>>}

\* processing times in ms
Times == {Rat(1, 1), Rat(2, 1)}

Names(models) == [i \in 1..Len(models) |-> models[i][1]]

\* DetectorEngine.models is the ModelManager's dict itself once initialized
EngineModels == IF de.initialized THEN mm.models ELSE EmptyDict

\* DetectorEngine.initialize
initialize(m) ==
    [initialized |-> TRUE, model_weights |-> m.model_weights,
     feature_names |-> m.feature_names]

\* lifespan: load_models then initialize, before any request is served;
\* dirs are the models directories the service may be started on
startup(dirs) ==
    /\ ~de.initialized
    /\ \E dir \in dirs :
          LET m == LoadFiles(mm, Listing(dir), 1)
          IN /\ mm' = m
             /\ de' = initialize(m)
             /\ hist' = [hist EXCEPT
                    !.catalogs = Append(@, Catalog(m.models, m.model_weights))]
    /\ loader' = [loader EXCEPT !.calls = 1]
    /\ UNCHANGED <<sc, res, stats, req, snapshots, active_connections, sockets>>

lifespan == startup(ServingDirs)

\* ModelManager.load_models run again: one uninterrupted stretch of it
load_models ==
    /\ de.initialized
    /\ loader.active \/ loader.calls < MaxLoads
    /\ \E dir \in ServingDirs :
          LET calls == IF loader.active THEN loader.calls ELSE loader.calls + 1
              todo == IF loader.active THEN loader.remaining ELSE Listing(dir)
              batch == LoopBatch(todo)
              rest == SubSeq(todo, Len(batch) + 1, Len(todo))
              m == LoadFiles(mm, batch, calls)
          IN /\ mm' = m
             /\ loader' = [active |-> rest # <<>>, remaining |-> rest, calls |-> calls]
             /\ hist' = IF rest = <<>>
                        THEN [hist EXCEPT
                                !.catalogs = Append(@, Catalog(m.models, m.model_weights))]
                        ELSE hist
    /\ UNCHANGED <<sc, res, de, stats, req, snapshots, active_connections, sockets>>

\* DetectorEngine.initialize run again
reinitialize ==
    /\ de.initialized
    /\ de' = initialize(mm)
    /\ UNCHANGED <<sc, res, mm, loader, stats, req, snapshots, hist, active_connections, sockets>>

\* DetectionResponse(prediction = ...), lines 181-188: the field is declared
\* str (line 55) and a model fitted on encoded labels predicts a numpy
\* integer, which is no str: the constructor raises ValidationError
response_raises(prediction) == prediction = "int_1"

\* A response that holds the prediction as it is cannot be encoded as JSON
\* when the prediction is a numpy integer
encoding_raises(prediction) == prediction = "int_1"

\* A /detect request reaches the service
Receive(r) ==
    /\ de.initialized
    /\ req[r].pc = "idle"
    /\ \E f \in ServingInputs :
          req' = [req EXCEPT ![r] = [pc |-> "received", features |-> f,
                                      received_at |-> Len(hist.catalogs)]]
    /\ UNCHANGED <<sc, res, mm, loader, de, stats, snapshots, hist, active_connections, sockets>>

\* detect_threat up to its first suspension: process_features, then
\* DetectorEngine.detect with its stats update, then the response object;
\* an exception of its constructor reaches the except clause, lines
\* 219-222: HTTP 500
Detect(r) ==
    /\ req[r].pc = "received"
    /\ \E t \in Times :
          LET features == process_features(req[r].features)
              b == [i \in 1..Len(EngineModels) |-> EngineModels[i][2].does]
              d == DetectScore(Names(EngineModels), de.model_weights, features, b)
          IN /\ stats' = update_stats(stats, t, d.threat_score)
             /\ req' = [req EXCEPT ![r] =
                          IF response_raises(d.prediction)
                          THEN [pc |-> "error"]
                          ELSE
                          [pc |-> "recorded",
                           prediction |-> d.prediction,
                           confidence |-> d.confidence,
                           threat_score |-> d.threat_score,
                           processing_time_ms |-> t,
                           catalog |-> Catalog(EngineModels, de.model_weights),
                           received_at |-> req[r].received_at,
                           commits |-> Len(hist.catalogs),
                           during_load |-> loader.active,
                           concurrent |-> \E q \in 1..MaxRequests :
                                             q # r /\ req[q].pc = "received"]]
             /\ hist' = [hist EXCEPT !.times = Append(@, t)]
    /\ UNCHANGED <<sc, res, mm, loader, de, snapshots, active_connections, sockets>>

\* The response is returned to the caller: at once when broadcast finds no
\* connection (line 78), else when broadcast has returned
Deliver(r) ==
    /\ \/ req[r].pc = "recorded" /\ active_connections = <<>>
       \/ req[r].pc = "broadcast_done"
    /\ req' = [req EXCEPT ![r] = [pc |-> "delivered",
                                  processing_time_ms |-> req[r].processing_time_ms,
                                  concurrent |-> req[r].concurrent,
                                  failed_sends |->
                                      IF req[r].pc = "broadcast_done"
                                      THEN Len(req[r].disconnected) ELSE 0]]
    /\ UNCHANGED <<sc, res, mm, loader, de, stats, snapshots, hist, active_connections, sockets>>

\* /stats
GetStats ==
    /\ Len(snapshots) < MaxSnapshots
    /\ snapshots' = Append(snapshots, get_stats(stats))
    /\ UNCHANGED <<sc, res, mm, loader, de, stats, req, hist, active_connections, sockets>>

----------------------------------------------------------------------------
(* WebSocketManager and the broadcast of a detection. A socket is "new"    *)
(* before it connects, "open" while its peer reads, "stalled" when the     *)
(* peer has stopped reading, "broken" when the peer is gone and the        *)
(* endpoint has not yet seen it, "closed" once the endpoint has.           *)

\* WebSocketManager.disconnect: remove the socket if the list holds it
disconnect(connections, websocket) ==
    SelectSeq(connections, LAMBDA c : c # websocket)

\* broadcast, lines 86-87: disconnect every connection whose send raised
disconnect_all(connections, disconnected) ==
    SelectSeq(connections,
              LAMBDA c : \A i \in 1..Len(disconnected) : disconnected[i] # c)

\* Mutant: an exception of send_json leaves broadcast
send_failed_unhandled(disconnected, connection) ==
    [raised |-> TRUE, disconnected |-> disconnected]

\* broadcast, lines 83-84: the bare except notes the connection
send_failed(disconnected, connection) ==
    [raised |-> FALSE, disconnected |-> Append(disconnected, connection)]

\* broadcast at the top of its for loop, lines 80-87. The loop's iterator
\* holds a position it into the list itself, not into a copy: the next
\* connection is the one now at that position. A send suspends the
\* coroutine; when the list is exhausted the failed connections are
\* removed and broadcast returns. Yields the request and the list.
for_connection(request, it, disconnected) ==
    IF it < Len(active_connections)
    THEN [req |-> [pc |-> "sending", it |-> it + 1,
                   target |-> active_connections[it + 1],
                   disconnected |-> disconnected] @@ request,
          connections |-> active_connections]
    ELSE [req |-> [pc |-> "broadcast_done", disconnected |-> disconnected] @@ request,
          connections |-> disconnect_all(active_connections, disconnected)]

\* await websocket_manager.broadcast(...), line 196, with a connection in
\* the list: the first send is started. The handler runs from detect to
\* here without suspension; nothing before this step reads the list, so
\* taking it as a step of its own adds no behaviour.
Broadcast(r) ==
    /\ req[r].pc = "recorded"
    /\ active_connections # <<>>
    /\ LET from == [at_start |-> active_connections] @@ req[r]
           loop == for_connection(from, 0, <<>>)
       IN /\ req' = [req EXCEPT ![r] = loop.req]
          /\ active_connections' = loop.connections
    /\ UNCHANGED <<sc, res, mm, loader, de, stats, snapshots, hist, sockets>>

\* send_json returns: the peer has the message, the loop goes on
SendReturns(r) ==
    /\ req[r].pc = "sending"
    /\ sockets[req[r].target].state = "open"
    /\ sockets' = [sockets EXCEPT ![req[r].target].got = Append(@, r)]
    /\ LET loop == for_connection(req[r], req[r].it, req[r].disconnected)
       IN /\ req' = [req EXCEPT ![r] = loop.req]
          /\ active_connections' = loop.connections
    /\ UNCHANGED <<sc, res, mm, loader, de, stats, snapshots, hist>>

\* send_json raises: the peer is gone. An exception that leaves broadcast
\* reaches the handler's except clause, lines 219-222: HTTP 500
SendRaises(r) ==
    /\ req[r].pc = "sending"
    /\ sockets[req[r].target].state \in {"broken", "closed"}
    /\ LET caught == send_failed(req[r].disconnected, req[r].target)
           loop == for_connection(req[r], req[r].it, caught.disconnected)
       IN IF caught.raised
          THEN /\ req' = [req EXCEPT ![r] = [pc |-> "error"]]
               /\ UNCHANGED active_connections
          ELSE /\ req' = [req EXCEPT ![r] = loop.req]
               /\ active_connections' = loop.connections
    /\ UNCHANGED <<sc, res, mm, loader, de, stats, snapshots, hist, sockets>>

\* websocket_endpoint, line 290: WebSocketManager.connect accepts and
\* appends. Sockets connect in the order of their numbers.
Connect(c) ==
    /\ de.initialized
    /\ sockets[c].state = "new"
    /\ \A d \in 1..(c - 1) : sockets[d].state # "new"
    /\ sockets' = [sockets EXCEPT ![c].state = "open"]
    /\ active_connections' = Append(active_connections, c)
    /\ UNCHANGED <<sc, res, mm, loader, de, stats, req, snapshots, hist>>

\* The peer stops reading: a send to it stays pending
Stall(c) ==
    /\ sockets[c].state = "open"
    /\ sockets' = [sockets EXCEPT ![c].state = "stalled"]
    /\ UNCHANGED <<sc, res, mm, loader, de, stats, req, snapshots, hist,
                   active_connections>>

\* The peer goes away: a send to it raises
Break(c) ==
    /\ sockets[c].state \in {"open", "stalled"}
    /\ sockets' = [sockets EXCEPT ![c].state = "broken"]
    /\ UNCHANGED <<sc, res, mm, loader, de, stats, req, snapshots, hist,
                   active_connections>>

\* websocket_endpoint, lines 294 and 331-332: receive_json raises
\* WebSocketDisconnect and the endpoint disconnects the socket
Disconnect(c) ==
    /\ sockets[c].state = "broken"
    /\ sockets' = [sockets EXCEPT ![c].state = "closed"]
    /\ active_connections' = disconnect(active_connections, c)
    /\ UNCHANGED <<sc, res, mm, loader, de, stats, req, snapshots, hist>>

Init ==
    /\ sc = [models |-> <<>>, model_weights |-> EmptyDict,
             features |-> EmptyDict, behaviour |-> <<>>]
    /\ res = [done |-> FALSE]
    /\ ServiceInit

Next ==
    \/ lifespan
    \/ load_models
    \/ reinitialize
    \/ \E r \in 1..MaxRequests : Receive(r)
    \/ \E r \in 1..MaxRequests : Detect(r)
    \/ \E r \in 1..MaxRequests : Deliver(r)
    \/ GetStats

Spec == Init /\ [][Next]_vars

\* Requests and statistics over the registry loaded at startup
NextStats ==
    \/ lifespan
    \/ \E r \in 1..MaxRequests : Receive(r)
    \/ \E r \in 1..MaxRequests : Detect(r)
    \/ \E r \in 1..MaxRequests : Deliver(r)
    \/ GetStats

SpecStats == Init /\ [][NextStats]_vars

\* Requests while the registry is loaded again
NextReload ==
    \/ lifespan
    \/ load_models
    \/ reinitialize
    \/ \E r \in 1..MaxReloadRequests : Receive(r)
    \/ \E r \in 1..MaxReloadRequests : Detect(r)
    \/ \E r \in 1..MaxReloadRequests : Deliver(r)

SpecReload == Init /\ [][NextReload]_vars

\* Requests served while observers connect and disconnect; the registry
\* holds a model whose predict raises
Failing == [raises |-> TRUE, label |-> "none", proba |-> "absent", maxp |-> Zero]

SvmFile == File("svm.joblib", "SVC", "none", Failing)

FailingDirs ==
    {[exists |-> TRUE, files |-> <<SvmFile>>],
     [exists |-> TRUE, files |-> <<DtFile, SvmFile>>]}

lifespan_failing == startup(FailingDirs)

\* One detection, request 1, and its broadcast
NextBroadcast ==
    \/ lifespan_failing
    \/ Receive(1)
    \/ Detect(1)
    \/ Broadcast(1)
    \/ SendReturns(1)
    \/ SendRaises(1)
    \/ Deliver(1)
    \/ \E c \in 1..MaxSockets : Connect(c)
    \/ \E c \in 1..MaxSockets : Stall(c)
    \/ \E c \in 1..MaxSockets : Break(c)
    \/ \E c \in 1..MaxSockets : Disconnect(c)

SpecBroadcast == Init /\ [][NextBroadcast]_vars

\* The event loop runs every coroutine that can go on: a handler whose
\* await has an outcome is resumed. Nothing makes a peer read or go away.
SpecBroadcastFair ==
    /\ SpecBroadcast
    /\ WF_vars(Broadcast(1))
    /\ WF_vars(SendReturns(1))
    /\ WF_vars(SendRaises(1))
    /\ WF_vars(Deliver(1))

----------------------------------------------------------------------------
(* The three request paths: /detect, /batch-detect and a detection_request *)
(* over a WebSocket, on a registry whose model predicts a string label or   *)
(* an encoded integer label. res.responses are the responses the last two   *)
(* returned.                                                                *)

IntOne == [raises |-> FALSE, label |-> "int_1", proba |-> "absent", maxp |-> Zero]

IntFile == File("knn.joblib", "KNeighborsClassifier", "none", IntOne)

LabelDirs ==
    {[exists |-> TRUE, files |-> <<DtFile>>],
     [exists |-> TRUE, files |-> <<IntFile>>]}

lifespan_labels == startup(LabelDirs)

\* Request bodies of /batch-detect: arrays of 0..MaxBatch requests
Batches == UNION {[1..n -> ServingInputs] : n \in 0..MaxBatch}

\* batch_detect_threats, lines 232-244: the for loop from request i on; acc
\* holds the statistics and the results list as the loop has left them. An
\* exception of process_features leaves the loop.
RECURSIVE batch_loop(_, _, _, _)
batch_loop(requests, t, i, acc) ==
    IF i > Len(requests)
    THEN acc
    ELSE LET call == process_features_call(requests[i])
             b == [k \in 1..Len(EngineModels) |-> EngineModels[k][2].does]
             d == DetectScore(Names(EngineModels), de.model_weights, call.features, b)
         IN IF call.raised
            THEN [acc EXCEPT !.raised = TRUE]
            ELSE batch_loop(requests, t, i + 1,
                    [raised |-> FALSE,
                     stats |-> update_stats(acc.stats, t, d.threat_score),
                     times |-> Append(acc.times, t),
                     results |-> Append(acc.results,
                                    [features |-> requests[i],
                                     prediction |-> d.prediction,
                                     confidence |-> d.confidence,
                                     threat_score |-> d.threat_score])])

\* batch_detect_threats, line 252: processing_time / len(requests) raises
\* ZeroDivisionError for an empty array
avg_raises(requests) == Len(requests) = 0

\* The response of /batch-detect: HTTP 500 when the loop or the average
\* raised (lines 255-257) or the results cannot be encoded, else the dict
\* of lines 247-253
batch_response(requests, loop) ==
    IF \/ loop.raised
       \/ avg_raises(requests)
       \/ \E i \in 1..Len(loop.results) : encoding_raises(loop.results[i].prediction)
    THEN [path |-> "batch", status |-> 500, requests |-> requests,
          results |-> <<>>, batch_size |-> 0]
    ELSE [path |-> "batch", status |-> 200, requests |-> requests,
          results |-> loop.results, batch_size |-> Len(requests)]

\* /batch-detect: the handler holds no await that suspends, it runs from
\* the first request to its return
batch_detect_threats ==
    /\ de.initialized
    /\ \A k \in 1..Len(res.responses) : res.responses[k].path # "batch"
    /\ \E requests \in Batches, t \in Times :
          LET loop == batch_loop(requests, t, 1,
                         [raised |-> FALSE, stats |-> stats, times |-> hist.times,
                          results |-> <<>>])
          IN /\ stats' = loop.stats
             /\ hist' = [hist EXCEPT !.times = loop.times]
             /\ res' = [res EXCEPT
                          !.responses = Append(@, batch_response(requests, loop))]
    /\ UNCHANGED <<sc, mm, loader, de, req, snapshots, active_connections, sockets>>

\* Messages a connected client may send: a detection_request whose data
\* make a DetectionRequest, or one whose data hold no features
WsMessages ==
    {[valid |-> TRUE, features |-> f] : f \in ServingInputs}
    \cup {[valid |-> FALSE, features |-> EmptyDict]}

\* websocket_endpoint, lines 296-329, for a detection_request of socket c:
\* DetectionRequest(**request_data), process_features, detect, and the
\* response sent back on the same socket; an exception on the way is
\* answered with a message of type "error"
websocket_detection(c) ==
    /\ de.initialized
    /\ sockets[c].state = "open"
    /\ \A k \in 1..Len(res.responses) : res.responses[k].path # "ws"
    /\ \E data \in WsMessages, t \in Times :
          LET features == process_features(data.features)
              b == [k \in 1..Len(EngineModels) |-> EngineModels[k][2].does]
              d == DetectScore(Names(EngineModels), de.model_weights, features, b)
          IN IF ~data.valid
             THEN /\ res' = [res EXCEPT !.responses =
                               Append(@, [path |-> "ws", status |-> 500,
                                          requests |-> <<>>, results |-> <<>>,
                                          batch_size |-> 0])]
                  /\ UNCHANGED <<stats, hist>>
             ELSE /\ stats' = update_stats(stats, t, d.threat_score)
                  /\ hist' = [hist EXCEPT !.times = Append(@, t)]
                  /\ res' = [res EXCEPT !.responses =
                               Append(@,
                                 IF encoding_raises(d.prediction)
                                 THEN [path |-> "ws", status |-> 500,
                                       requests |-> <<data.features>>,
                                       results |-> <<>>, batch_size |-> 0]
                                 ELSE [path |-> "ws", status |-> 200,
                                       requests |-> <<data.features>>,
                                       results |-> <<[features |-> data.features,
                                                      prediction |-> d.prediction,
                                                      confidence |-> d.confidence,
                                                      threat_score |-> d.threat_score]>>,
                                       batch_size |-> 1])]
    /\ UNCHANGED <<sc, mm, loader, de, req, snapshots, active_connections, sockets>>

InitPaths ==
    /\ sc = [models |-> <<>>, model_weights |-> EmptyDict,
             features |-> EmptyDict, behaviour |-> <<>>]
    /\ res = [done |-> FALSE, responses |-> <<>>]
    /\ ServiceInit

NextPaths ==
    \/ lifespan_labels
    \/ Receive(1)
    \/ Detect(1)
    \/ Broadcast(1)
    \/ SendReturns(1)
    \/ Deliver(1)
    \/ batch_detect_threats
    \/ \E c \in 1..MaxSockets : Connect(c)
    \/ \E c \in 1..MaxSockets : websocket_detection(c)

SpecPaths == InitPaths /\ [][NextPaths]_vars

----------------------------------------------------------------------------
(* Feature validation as a function of the raw mapping of a request, which *)
(* is drawn at the start.                                                  *)

\* Values a request may hold for a feature whose declared range is r: below
\* the minimum, inside, on the maximum, above it, and the non-finite, null,
\* non-numeric and out-of-range ones
RawValues(r) ==
    {Num(0 - 1, 1), Num(1, 2), Num(r.max.n, 1), Num(r.max.n + 1, 1),
     NaN, Inf, NegInf, None, Text, BigInt}

\* Requests that hold one required feature
OneRequired ==
    UNION {{<<<<feature_ranges[i][1], v>>>> : v \in RawValues(feature_ranges[i][2])} :
              i \in 1..Len(feature_ranges)}

\* Requests that hold one feature outside the required list
OneExtra == {<<<<"flow_count", v>>>> : v \in RawValues(RangeTo(100))}

\* Requests that hold several features, required and not, in either order
Mixed ==
    {<<<<"total_packets", Num(10001, 1)>>, <<"tcp_ratio", Num(0 - 1, 2)>>,
       <<"payload_entropy", NaN>>, <<"duration", Inf>>,
       <<"udp_ratio", Num(1, 2)>>, <<"icmp_ratio", NegInf>>>>,
     <<<<"flow_count", Num(20000, 1)>>, <<"total_bytes", Num(5, 1)>>>>,
     <<<<"total_bytes", Num(5, 1)>>, <<"flow_count", Num(0 - 3, 1)>>,
       <<"vlan_count", NaN>>>>,
     <<<<"total_packets", None>>, <<"dns_queries", Text>>,
       <<"flow_count", None>>>>,
     <<<<"total_packets", Num(7, 1)>>, <<"dns_queries", BigInt>>>>}

RawInputs == {EmptyDict} \cup OneRequired \cup OneExtra \cup Mixed

InitFeatures ==
    /\ \E raw \in RawInputs :
          sc = [models |-> <<>>, model_weights |-> EmptyDict,
                features |-> raw, behaviour |-> <<>>]
    /\ res = [done |-> FALSE]
    /\ ServiceInit

\* features = feature_processor.process_features(request.features)
ProcessFeatures ==
    /\ ~res.done
    /\ LET call == process_features_call(sc.features)
       IN res' = [done |-> TRUE, raised |-> call.raised, features |-> call.features,
                  prepared |-> FALSE, vector |-> <<>>]
    /\ UNCHANGED <<sc, mm, loader, de, stats, req, snapshots, hist, active_connections, sockets>>

\* feature_vector = self._prepare_feature_vector(features), with the feature
\* names the engine took from the registry
PrepareFeatureVector ==
    /\ res.done /\ ~res.raised /\ ~res.prepared
    /\ res' = [res EXCEPT !.prepared = TRUE,
                          !.vector = prepare_feature_vector(
                                         initialize(mm).feature_names, res.features)]
    /\ UNCHANGED <<sc, mm, loader, de, stats, req, snapshots, hist, active_connections, sockets>>

NextFeatures ==
    \/ ProcessFeatures
    \/ PrepareFeatureVector

SpecFeatures == InitFeatures /\ [][NextFeatures]_vars

----------------------------------------------------------------------------
(* Loading as a function of the models directory, whose listing is drawn   *)
(* at the start: up to MaxFiles files in any scan order, each sound,       *)
(* failing to deserialize, or failing at stat().                           *)

FileNames == {KnownFiles[i][1] : i \in 1..Len(KnownFiles)}

FileFaults == {"none", "load", "stat"}

Listings ==
    UNION {{[i \in 1..n |-> File(l[i][1], "Pipeline", l[i][2], AttackHard)] :
               l \in {m \in [1..n -> FileNames \X FileFaults] :
                          \A i, j \in 1..n : m[i][1] = m[j][1] => i = j}} :
              n \in 1..MaxFiles}

InitLoad ==
    /\ \E files \in Listings : sc = [models_dir |-> [exists |-> TRUE, files |-> files]]
    /\ res = [done |-> FALSE]
    /\ ServiceInit

\* lifespan on the directory drawn
lifespan_listed == startup({sc.models_dir})

SpecLoad == InitLoad /\ [][lifespan_listed]_vars

----------------------------------------------------------------------------
(* Claims about scoring (SpecScore) *)

InUnit(x) == RLe(Zero, x) /\ RLe(x, One)

Predictions == res.result.model_predictions
Confidences == res.result.model_confidences
AllUnknown == \A i \in 1..Len(Predictions) : Predictions[i][2] = "unknown"

\* C1: every detection result has 0 <= confidence <= 1 and
\* 0 <= threat_score <= 1, whatever the models return (any label, any
\* confidence, failure of some or all models) and whatever the positive weights.
C1_ScoresInUnitInterval ==
    res.done => InUnit(res.result.confidence) /\ InUnit(res.result.threat_score)

\* C1 witness: a weight-2 attack vote pushes the base score above 1 and the
\* result's threat_score is clamped to 1.
C1_Witness ==
    /\ res.done
    /\ Len(sc.models) = MaxModels
    /\ res.result.threat_score = One
    /\ \E i \in 1..Len(sc.models) :
          /\ sc.model_weights[i][2] = Rat(2, 1)
          /\ Predictions[i][2] = "attack"
          /\ Confidences[i][2] = Rat(9, 10)
    /\ \E i \in 1..Len(sc.models) : sc.behaviour[i].raises

\* The anomaly increment the thresholds give for the run's features
ExpectedAnomaly ==
    LET f(name) == DictGet(sc.features, name, Zero)
    IN RAdd(RAdd(IF RGt(f("suspicious_flags"), Rat(5, 1)) THEN Rat(3, 10) ELSE Zero,
                 IF RGt(f("packets_per_second"), Rat(100, 1)) THEN Rat(2, 10) ELSE Zero),
            IF RGt(f("tcp_syn_ratio"), Rat(8, 10)) THEN Rat(2, 10) ELSE Zero)

ClaimFeatures == Feat(Rat(10, 1), Rat(150, 1), Rat(9, 10))

\* C3 as stated: suspicious_flags 10, packets_per_second 150, tcp_syn_ratio 0.9
\* and all models "unknown" give an anomaly increment capped at 1.0 and
\* threat_score 0.2.
C3_HeuristicScoreOneFifth ==
    (res.done /\ AllUnknown /\ sc.features = ClaimFeatures) =>
        res.result.threat_score = Rat(2, 10)

\* C3 amended: for those features and all models "unknown" the anomaly
\* increment is 0.3 + 0.2 + 0.2 = 0.7 (the cap at 1.0 does not bind) and
\* threat_score is min(1.0, 0.0 + 0.7 * 0.2) = 0.14.
C3_HeuristicScore ==
    (res.done /\ AllUnknown /\ sc.features = ClaimFeatures) =>
        /\ ExpectedAnomaly = Rat(7, 10)
        /\ res.result.threat_score = Rat(14, 100)

C3_Witness ==
    /\ res.done
    /\ Len(sc.models) = MaxModels
    /\ AllUnknown
    /\ sc.features = ClaimFeatures

\* Sum of confidence * weight over the models voting label l
RECURSIVE LabelSum(_, _)
LabelSum(l, i) ==
    IF i = 0
    THEN Zero
    ELSE RAdd(LabelSum(l, i - 1),
              IF Predictions[i][2] = l
              THEN RMul(Confidences[i][2], sc.model_weights[i][2])
              ELSE Zero)

VotedLabels == {Predictions[i][2] : i \in 1..Len(Predictions)} \ {"unknown"}
FirstSeen(l) == CHOOSE i \in 1..Len(Predictions) :
                    /\ Predictions[i][2] = l
                    /\ \A j \in 1..(i - 1) : Predictions[j][2] # l
SumOf(l) == LabelSum(l, Len(Predictions))
RECURSIVE SumAll(_)
SumAll(S) == IF S = {} THEN Zero
             ELSE LET l == CHOOSE x \in S : TRUE IN RAdd(SumOf(l), SumAll(S \ {l}))

ExampleVotes ==
    /\ Len(sc.models) = 3
    /\ \E a1, a2, n \in 1..3 :
          /\ {a1, a2, n} = 1..3
          /\ Predictions[a1][2] = "attack" /\ Confidences[a1][2] = Rat(9, 10)
          /\ sc.model_weights[a1][2] = Rat(1, 1)
          /\ Predictions[a2][2] = "attack" /\ Confidences[a2][2] = Rat(6, 10)
          /\ sc.model_weights[a2][2] = Rat(2, 1)
          /\ Predictions[n][2] = "normal" /\ Confidences[n][2] = Rat(8, 10)
          /\ sc.model_weights[n][2] = Rat(1, 1)

\* C4: when at least one model voted a label other than "unknown", the
\* ensemble prediction is the label with the largest sum of confidence*weight
\* (of tied labels, the one first seen in model order) and the ensemble
\* confidence is that sum divided by the sum over all voting models; attack
\* votes (0.9, w 1.0) and (0.6, w 2.0) against normal (0.8, w 1.0) give
\* "attack" with confidence 2.1/2.9.
C4_WeightedVote ==
    (res.done /\ VotedLabels # {}) =>
        LET p == res.result.prediction
        IN /\ p \in VotedLabels
           /\ \A l \in VotedLabels :
                 \/ RLt(SumOf(l), SumOf(p))
                 \/ SumOf(l) = SumOf(p) /\ FirstSeen(p) <= FirstSeen(l)
           /\ RMul(res.result.confidence, SumAll(VotedLabels)) = SumOf(p)
           /\ (RGt(SumAll(VotedLabels), Zero) =>
                 res.result.confidence = RDiv(SumOf(p), SumAll(VotedLabels)))
           /\ (ExampleVotes =>
                 p = "attack" /\ res.result.confidence = Rat(21, 29))

C4_Witness ==
    /\ res.done
    /\ ExampleVotes
    /\ res.result.prediction = "attack"
    /\ res.result.confidence = Rat(21, 29)

C4_TieWitness ==
    /\ res.done
    /\ Cardinality(VotedLabels) = 2
    /\ \A l \in VotedLabels : SumOf(l) = Rat(8, 10)

RemoveAt(s, i) == SubSeq(s, 1, i - 1) \o SubSeq(s, i + 1, Len(s))

\* C5: a detection in which a model raises during inference returns the same
\* prediction, confidence and threat_score as the detection over the registry
\* without that model, the other models behaving identically.
C5_FailedModelAsAbsent ==
    res.done =>
        \A i \in 1..Len(sc.models) :
            sc.behaviour[i].raises =>
                LET without == DetectScore(RemoveAt(sc.models, i),
                                           RemoveAt(sc.model_weights, i),
                                           sc.features,
                                           RemoveAt(sc.behaviour, i))
                IN /\ res.result.prediction = without.prediction
                   /\ res.result.confidence = without.confidence
                   /\ res.result.threat_score = without.threat_score

C5_Witness ==
    /\ res.done
    /\ Len(sc.models) = MaxModels
    /\ sc.behaviour[1].raises
    /\ \E j \in 2..Len(sc.models) :
          ~sc.behaviour[j].raises /\ sc.behaviour[j].label = "attack"
    /\ RGt(res.result.threat_score, Zero)
    /\ res.result.prediction = "attack"

\* C24: the per-model mappings of a result hold exactly one entry for each
\* registered model, in registry order; a model whose inference failed is
\* there with label "unknown" and confidence 0.0, and every model after it
\* is still queried and is there with what it yielded.
C24_OneEntryPerModel ==
    res.done =>
        /\ Names(Predictions) = sc.models
        /\ Names(Confidences) = sc.models
        /\ \A i \in 1..Len(sc.models) :
              IF sc.behaviour[i].raises
              THEN /\ DictGet(Predictions, sc.models[i], "absent") = "unknown"
                   /\ DictGet(Confidences, sc.models[i], One) = Zero
              ELSE DictGet(Predictions, sc.models[i], "absent") = sc.behaviour[i].label

\* C24 witness: the first of three models failed, the two after it were
\* queried and voted.
C24_Witness ==
    /\ res.done
    /\ Len(sc.models) = 3
    /\ sc.behaviour[1].raises
    /\ Predictions = <<<<"decision_tree", "unknown">>, <<"knn", "normal">>,
                       <<"ensemble", "attack">>>>
    /\ Confidences[1][2] = Zero
    /\ Confidences[3][2] = Rat(9, 10)

\* Models that produced a label other than "unknown"
Voters == {i \in 1..Len(Predictions) : Predictions[i][2] # "unknown"}

\* Sum of confidence * weight over the models predicting "attack" or 1,
\* divided by the number of voters; 0.0 when none voted
ExpectedBase ==
    IF Voters = {}
    THEN Zero
    ELSE RDivInt(RAdd(SumOf("attack"), SumOf("int_1")), Cardinality(Voters))

\* C25: threat_score is min(1.0, base + anomaly_increment * 0.2), base being
\* the sum of confidence * weight over the models predicting "attack" or 1
\* divided by the number of models with a label other than "unknown" (0.0
\* if none), the increment 0.3 for suspicious_flags > 5, 0.2 for
\* packets_per_second > 100 and 0.2 for tcp_syn_ratio > 0.8, each strict.
C25_ThreatScoreFormula ==
    res.done =>
        res.result.threat_score
          = RMin(One, RAdd(ExpectedBase, RMul(ExpectedAnomaly, Rat(2, 10))))

\* C25 witness: one model predicted the integer 1, one "normal", one
\* failed; the rate sits on its threshold, flags and SYN ratio are above
\* theirs: 0.5 * 2 / 2 + (0.3 + 0.2) * 0.2 = 0.6.
C25_Witness ==
    /\ res.done
    /\ Len(sc.models) = 3
    /\ sc.features = Feat(Rat(6, 1), Rat(100, 1), Rat(9, 10))
    /\ \E i, j, k \in 1..3 :
          /\ Predictions[i][2] = "int_1" /\ sc.model_weights[i][2] = Rat(2, 1)
          /\ Predictions[j][2] = "normal"
          /\ Predictions[k][2] = "unknown"
    /\ res.result.threat_score = Rat(6, 10)

----------------------------------------------------------------------------
(* Claims about the registry reload (SpecReload) *)

\* C6: a detection in flight while load_models runs again computes its
\* result from the catalog of models and weights as it stood before that
\* reload or as it stands after it, never from a mixture: the catalog it used
\* is the one committed last when it ran, or the one the reload under way
\* then commits.
C6_NoMixedCatalog ==
    \A r \in 1..MaxRequests :
        req[r].pc = "recorded" =>
            LET k == req[r].commits
            IN \/ req[r].catalog = hist.catalogs[k]
               \/ /\ req[r].during_load
                  /\ \/ Len(hist.catalogs) = k
                     \/ req[r].catalog = hist.catalogs[k + 1]

\* C6 witness: the request arrived under the startup catalog, the registry
\* was reloaded with new model objects before its detection ran, and the
\* detection used the reloaded catalog.
C6_Witness ==
    \E r \in 1..MaxRequests :
        /\ req[r].pc = "recorded"
        /\ req[r].received_at = 1
        /\ req[r].commits = 2
        /\ Len(req[r].catalog) = 2
        /\ hist.catalogs[1] # hist.catalogs[2]
        /\ req[r].catalog = hist.catalogs[2]

----------------------------------------------------------------------------
(* Claims about the statistics (SpecStats) *)

RECURSIVE SumSeq(_, _)
SumSeq(s, i) == IF i = 0 THEN Zero ELSE RAdd(SumSeq(s, i - 1), s[i])

\* C7: after N recordings detections_performed = N and
\* avg_processing_time_ms is the arithmetic mean of the N recorded times.
C7_CountAndMean ==
    LET N == Len(hist.times)
    IN /\ stats.detections_performed = N
       /\ N > 0 => stats.avg_processing_time_ms = RDivInt(SumSeq(hist.times, N), N)

C7_Witness ==
    /\ hist.times = <<Rat(1, 1), Rat(2, 1)>>
    /\ stats.detections_performed = 2
    /\ stats.avg_processing_time_ms = Rat(3, 2)

Completed == {r \in 1..MaxRequests : req[r].pc \in {"recorded", "delivered"}}

RECURSIVE SumTimes(_)
SumTimes(S) ==
    IF S = {}
    THEN Zero
    ELSE LET r == CHOOSE x \in S : TRUE
         IN RAdd(req[r].processing_time_ms, SumTimes(S \ {r}))

\* C8: no stats update is lost under concurrent detections: when K
\* detections have completed, detections_performed is K and
\* total_processing_time is the sum of their K processing times.
C8_NoLostUpdate ==
    /\ stats.detections_performed = Cardinality(Completed)
    /\ stats.total_processing_time = SumTimes(Completed)

\* C8 witness: two requests were in flight together and both have completed.
C8_Witness ==
    /\ Cardinality(Completed) = 2
    /\ \E r \in Completed : req[r].concurrent
    /\ stats.detections_performed = 2
    /\ stats.total_processing_time = Rat(3, 1)

Consistent(s) ==
    s.detections_performed > 0 =>
        RMul(s.avg_processing_time_ms, Rat(s.detections_performed, 1))
            = s.total_processing_time

\* C9: every snapshot returned by get_stats satisfies
\* avg_processing_time_ms = total_processing_time / detections_performed when
\* detections_performed > 0, and what it shows is not altered by later steps.
C9_SnapshotConsistent ==
    /\ [](\A i \in 1..Len(snapshots) : Consistent(Shown(snapshots[i])))
    /\ [][\A i \in 1..Len(snapshots) :
            Shown(snapshots[i])' = Shown(snapshots[i])]_vars

\* C9 witness: a snapshot taken after the first detection still shows one
\* detection after a second one was recorded.
C9_Witness ==
    /\ Len(snapshots) >= 1
    /\ Shown(snapshots[1]).detections_performed = 1
    /\ Shown(snapshots[1]).avg_processing_time_ms = Rat(2, 1)
    /\ stats.detections_performed = 2

\* C10: a stats recording increments threats_detected by exactly one iff the
\* recorded threat_score is strictly greater than 0.5, and leaves it
\* unchanged otherwise.
C10_ThreatCounted ==
    [][\A r \in 1..MaxRequests :
          (req[r].pc = "received" /\ req'[r].pc = "recorded") =>
             LET score == req'[r].threat_score
             IN IF 2 * score.n > score.d
                THEN stats'.threats_detected = stats.threats_detected + 1
                ELSE stats'.threats_detected = stats.threats_detected]_vars

\* C10 witness: a detection with threat_score exactly 0.5 was recorded and
\* not counted, another above 0.5 was.
C10_Witness ==
    /\ \E r \in 1..MaxRequests :
          req[r].pc = "recorded" /\ req[r].threat_score = Rat(1, 2)
    /\ \E r \in 1..MaxRequests :
          req[r].pc = "recorded" /\ RGt(req[r].threat_score, Rat(1, 2))
    /\ stats.detections_performed = 2
    /\ stats.threats_detected = 1

\* C11: from one state to the next, detections_performed, threats_detected
\* and total_processing_time never decrease, whatever operation is taken;
\* avg_processing_time_ms is the only field of the statistics that may.
C11_CountersMonotone ==
    [][/\ stats'.detections_performed >= stats.detections_performed
       /\ stats'.threats_detected >= stats.threats_detected
       /\ RLe(stats.total_processing_time, stats'.total_processing_time)]_vars

\* C11 witness: two detections were recorded, the second faster than the
\* first, so the average went down from 2 to 3/2 while the total went up.
C11_Witness ==
    /\ hist.times = <<Rat(2, 1), Rat(1, 1)>>
    /\ stats.detections_performed = 2
    /\ stats.total_processing_time = Rat(3, 1)
    /\ RLt(stats.avg_processing_time_ms, Rat(2, 1))

\* The result of a detection over a catalog of <<name, model, weight>>
\* and the features of a request
ScoreOver(catalog, features) ==
    LET weights == [i \in 1..Len(catalog) |-> <<catalog[i][1], catalog[i][3]>>]
        q == QueryModels([i \in 1..Len(catalog) |-> catalog[i][1]],
                         [i \in 1..Len(catalog) |-> catalog[i][2].does])
        e == calculate_ensemble_prediction(q.predictions, q.confidences, weights)
    IN [prediction |-> e.prediction, confidence |-> e.confidence,
        threat_score |-> calculate_threat_score(q.predictions, q.confidences,
                             weights, process_features(features))]

\* C26: a detection changes no shared state but the statistics: the
\* registry's models, the weights and the feature order stay as
\* initialization left them, and the prediction, confidence and
\* threat_score of a detection are those of its features over that
\* catalog, whatever detections came before.
C26_ScoringHasNoSideEffect ==
    [][\A r \in 1..MaxRequests :
          (req[r].pc = "received" /\ req'[r].pc = "recorded") =>
             /\ mm' = mm
             /\ de' = de
             /\ Catalog(EngineModels, de.model_weights) = hist.catalogs[1]
             /\ de.feature_names = mm.feature_names
             /\ [prediction |-> req'[r].prediction,
                 confidence |-> req'[r].confidence,
                 threat_score |-> req'[r].threat_score]
                  = ScoreOver(hist.catalogs[1], req[r].features)]_vars

\* C26 witness: the first detection was counted as a threat, the second,
\* of a request without anomalies, was not, over the same registry.
C26_Witness ==
    /\ stats.detections_performed = 2
    /\ stats.threats_detected = 1
    /\ hist.catalogs = <<Catalog(mm.models, mm.model_weights)>>
    /\ Len(mm.models) = 1
    /\ req[1].pc = "recorded" /\ req[2].pc = "recorded"
    /\ req[1].threat_score = Rat(6, 10)
    /\ req[2].threat_score = Rat(1, 2)

----------------------------------------------------------------------------
(* Claims about feature validation (SpecFeatures) *)

\* What the validator is to make of value, for a feature whose range is r
Expected(r, value) ==
    IF value.kind \in {"nan", "inf", "-inf"} THEN Zero
    ELSE IF value.v.n * r.max.d > r.max.n * value.v.d THEN r.max
    ELSE IF value.v.n * r.min.d < r.min.n * value.v.d THEN r.min
    ELSE value.v

\* C12: for every feature with a declared range, a value above the maximum
\* comes out as the maximum, a value below the minimum as the minimum, a
\* value inside the range unchanged, and NaN, +Infinity and -Infinity as 0.0.
C12_ClampedToRange ==
    (res.done /\ ~res.raised) =>
        \A i \in 1..Len(sc.features) :
            LET name == sc.features[i][1]
                value == sc.features[i][2]
            IN (DictHas(feature_ranges, name)
                /\ value.kind \in {"float", "nan", "inf", "-inf"}) =>
                   /\ DictHas(res.features, name)
                   /\ DictGet(res.features, name, None)
                        = Expected(DictGet(feature_ranges, name, RangeTo(0)), value)

\* C12 witness: one request held a value above its maximum, one below its
\* minimum, one inside, a NaN and both infinities, and each came out as
\* the claim says.
C12_Witness ==
    /\ res.done /\ ~res.raised
    /\ DictGet(sc.features, "total_packets", None) = Num(10001, 1)
    /\ DictGet(res.features, "total_packets", None) = Rat(10000, 1)
    /\ DictGet(sc.features, "tcp_ratio", None) = Num(0 - 1, 2)
    /\ DictGet(res.features, "tcp_ratio", None) = Zero
    /\ DictGet(sc.features, "udp_ratio", None) = Num(1, 2)
    /\ DictGet(res.features, "udp_ratio", None) = Rat(1, 2)
    /\ DictGet(sc.features, "payload_entropy", None) = NaN
    /\ DictGet(res.features, "payload_entropy", None) = Zero
    /\ DictGet(sc.features, "duration", None) = Inf
    /\ DictGet(res.features, "duration", None) = Zero
    /\ DictGet(sc.features, "icmp_ratio", None) = NegInf
    /\ DictGet(res.features, "icmp_ratio", None) = Zero

\* C13: process_features never fails: for every raw mapping, with required
\* names absent, null values and values that cannot be coerced to a number,
\* it raises no error and returns a mapping that holds 0.0 for each bad
\* value.
C13_NeverFails ==
    res.done =>
        /\ ~res.raised
        /\ \A i \in 1..Len(sc.features) :
              sc.features[i][2].kind # "float" =>
                  DictGet(res.features, sc.features[i][1], None) = Zero

\* C14: the keys of the validator's output are exactly the required features
\* and the keys of the raw input; a required name absent from the input
\* comes out as 0.0, and a name outside the required list is carried
\* through, unclamped since no range is declared for it.
C14_KeysAreUnion ==
    (res.done /\ ~res.raised) =>
        /\ {res.features[i][1] : i \in 1..Len(res.features)}
             = {required_features[i] : i \in 1..Len(required_features)}
               \cup {sc.features[i][1] : i \in 1..Len(sc.features)}
        /\ \A i, j \in 1..Len(res.features) :
              res.features[i][1] = res.features[j][1] => i = j
        /\ \A i \in 1..Len(required_features) :
              ~DictHas(sc.features, required_features[i]) =>
                  DictGet(res.features, required_features[i], None) = Zero
        /\ \A i \in 1..Len(sc.features) :
              LET name == sc.features[i][1]
                  value == sc.features[i][2]
              IN (~IsRequired(name) /\ ~DictHas(feature_ranges, name)) =>
                     DictGet(res.features, name, None)
                       = IF value.kind = "float" THEN value.v ELSE Zero

\* C14 witness: a request with one required feature and two others came out
\* with twenty keys, the absent required ones as 0.0, the value -3 of
\* flow_count unchanged.
C14_Witness ==
    /\ res.done /\ ~res.raised
    /\ sc.features = <<<<"total_bytes", Num(5, 1)>>, <<"flow_count", Num(0 - 3, 1)>>,
                        <<"vlan_count", NaN>>>>
    /\ Len(res.features) = Len(required_features) + 2
    /\ DictGet(res.features, "total_bytes", None) = Rat(5, 1)
    /\ DictGet(res.features, "tls_handshakes", None) = Zero
    /\ DictGet(res.features, "flow_count", None) = Rat(0 - 3, 1)
    /\ DictGet(res.features, "vlan_count", None) = Zero

\* C15: the feature vector handed to the models has exactly as many elements
\* as the feature schema has names, whatever names the request holds.
C15_VectorLength ==
    (res.done /\ ~res.raised /\ res.prepared) =>
        Len(res.vector) = Len(feature_ranges)

\* A mapping the validator returned, handed to it as a request: every
\* value a finite float
AsRaw(features) ==
    [i \in 1..Len(features) |->
        <<features[i][1], [kind |-> "float", v |-> features[i][2]]>>]

\* process_features applied to its own output
Again == process_features_call(AsRaw(res.features))

\* C30: the validator is idempotent: for every raw mapping it returns a
\* mapping for, applying it to that mapping returns the same keys in the
\* same order with the same values, every value being inside its declared
\* range already.
C30_Idempotent ==
    (res.done /\ ~res.raised) =>
        /\ ~Again.raised
        /\ Again.features = res.features
        /\ \A i \in 1..Len(res.features) :
              DictHas(feature_ranges, res.features[i][1]) =>
                  LET r == DictGet(feature_ranges, res.features[i][1], RangeTo(0))
                  IN RLe(r.min, res.features[i][2]) /\ RLe(res.features[i][2], r.max)

\* C30 witness: a request with values above and below their ranges, inside
\* one, and non-finite ones was cleaned, and cleaning the outcome again
\* changed nothing.
C30_Witness ==
    /\ res.done /\ ~res.raised
    /\ DictGet(sc.features, "total_packets", None) = Num(10001, 1)
    /\ DictGet(sc.features, "udp_ratio", None) = Num(1, 2)
    /\ DictGet(sc.features, "payload_entropy", None) = NaN
    /\ AsRaw(res.features) # sc.features
    /\ DictGet(Again.features, "total_packets", None) = Rat(10000, 1)
    /\ DictGet(Again.features, "udp_ratio", None) = Rat(1, 2)
    /\ Again.features = res.features

----------------------------------------------------------------------------
(* Claims about the detection pipeline and broadcast (SpecBroadcast) *)

\* A model of the engine's registry raises when it is queried
SomeModelFails == \E i \in 1..Len(EngineModels) : EngineModels[i][2].does.raises

\* The DetectionResult a request holds from its recording to its return
Outcome(request) ==
    [prediction |-> request.prediction, confidence |-> request.confidence,
     threat_score |-> request.threat_score]

\* C16: when models of the registry fail during inference, some or all of
\* them, no request ends as an error response, and every request whose
\* features were validated and scored reaches the delivered state with its
\* result.
C16_FailuresAbsorbed ==
    /\ [](req[1].pc # "error")
    /\ (req[1].pc = "recorded" /\ SomeModelFails) ~> (req[1].pc = "delivered")

\* Scoring itself absorbs the failures: a request is recorded with a result
\* although models of the registry raised
ScoringAbsorbsFailures ==
    \A r \in 1..MaxRequests :
        (req[r].pc = "recorded" /\ SomeModelFails) =>
            /\ req[r].prediction \in {"unknown", "attack"}
            /\ InUnit(req[r].confidence) /\ InUnit(req[r].threat_score)

\* C18: a send of the broadcast that raises changes nothing in the
\* DetectionResult the caller of /detect is returned and never makes the
\* request an error response: from its recording to its return the request
\* keeps its result and goes on to be returned.
C18_SendFailureHarmless ==
    [][\A r \in 1..MaxRequests :
          req[r].pc \in {"recorded", "sending", "broadcast_done"} =>
             /\ req'[r].pc \in {"recorded", "sending", "broadcast_done", "delivered"}
             /\ req'[r].pc # "delivered" => Outcome(req'[r]) = Outcome(req[r])]_vars

\* C18 witness: a response was returned after a broadcast in which a send
\* raised.
C18_Witness ==
    \E r \in 1..MaxRequests :
        req[r].pc = "delivered" /\ req[r].failed_sends > 0

\* C19: a detection whose broadcast meets a subscriber that never accepts
\* the message still returns its response: every recorded request is
\* eventually delivered.
C19_NeverBlocks ==
    (req[1].pc \in {"recorded", "sending"}) ~> (req[1].pc = "delivered")

\* How many times request r's message is among the messages got
Count(got, r) == Len(SelectSeq(got, LAMBDA x : x = r))

InList(connections, c) == \E i \in 1..Len(connections) : connections[i] = c

\* C20: whatever connects and disconnects while a broadcast is under way,
\* the broadcast raises no error and every subscriber that was connected
\* from its start to its end has received the message exactly once.
C20_EachExactlyOnce ==
    \A r \in 1..MaxRequests :
        /\ req[r].pc # "error"
        /\ req[r].pc = "broadcast_done" =>
              \A c \in 1..MaxSockets :
                  (/\ InList(req[r].at_start, c)
                   /\ InList(active_connections, c)
                   /\ sockets[c].state = "open") =>
                      Count(sockets[c].got, r) = 1

\* How far a request has come: received, then validated, scored and
\* recorded by the time of the first suspension, then forwarded to the
\* broadcast, then returned
Stage(pc) ==
    CASE pc = "idle" -> 0
      [] pc = "received" -> 1
      [] pc = "recorded" -> 2
      [] pc = "sending" -> 3
      [] pc = "broadcast_done" -> 4
      [] pc = "delivered" -> 5
      [] OTHER -> 6

\* C22: a request goes through received, validated, scored, recorded and
\* delivered in that order: it never goes back, its result exists when the
\* statistics count it, the statistics count it once, in the step that
\* scores it, no message of it reaches a subscriber before that step or
\* after its return, and it is returned only once recorded and forwarded.
C22_PipelineOrder ==
    [][/\ Stage(req'[1].pc) >= Stage(req[1].pc)
       /\ stats'.detections_performed = stats.detections_performed
             + (IF req[1].pc = "received" /\ req'[1].pc # "received" THEN 1 ELSE 0)
       /\ (req[1].pc = "received" /\ req'[1].pc # "received") =>
             /\ req'[1].pc = "recorded"
             /\ req'[1].threat_score
                  = ScoreOver(hist.catalogs[1], req[1].features).threat_score
       /\ (sockets' # sockets /\ \E c \in 1..MaxSockets :
                                    sockets'[c].got # sockets[c].got) =>
             req[1].pc = "sending"
       /\ (req[1].pc # "delivered" /\ req'[1].pc = "delivered") =>
             \/ req[1].pc = "broadcast_done"
             \/ req[1].pc = "recorded" /\ active_connections = <<>>]_vars

\* C22 witness: the request was counted once and returned after its message
\* had reached two subscribers.
C22_Witness ==
    /\ req[1].pc = "delivered"
    /\ stats.detections_performed = 1
    /\ \E c, d \in 1..MaxSockets :
          c # d /\ sockets[c].got = <<1>> /\ sockets[d].got = <<1>>

----------------------------------------------------------------------------
(* Claims about loading (SpecLoad) *)

\* The registry holds the model deserialized from file
Holds(models, file) ==
    \E k \in 1..Len(models) : models[k][2].file = file.filename

\* C17: after load_models on a directory in which some files fail to
\* deserialize, wherever they fall in the scan order, every file that did
\* deserialize is present in the registry.
C17_ValidFilesLoaded ==
    LET files == sc.models_dir.files
    IN (de.initialized /\ \E j \in 1..Len(files) : files[j].fault = "load") =>
           \A i \in 1..Len(files) :
               files[i].fault # "load" => Holds(mm.models, files[i])

\* A file that deserialized is absent from the registry only when a file
\* scanned after it deserialized too and bears the same model name
AbsentOnlyIfReplaced ==
    LET files == sc.models_dir.files
    IN de.initialized =>
           \A i \in 1..Len(files) :
               (files[i].fault # "load" /\ ~Holds(mm.models, files[i])) =>
                   \E j \in (i + 1)..Len(files) :
                       /\ files[j].fault # "load"
                       /\ extract_model_name(files[j].filename)
                            = extract_model_name(files[i].filename)

\* C28: after load_models over any set of artifact files, the registry
\* holds as many models as files loaded successfully (the logged
\* loaded_count): no loaded artifact is replaced by another.
C28_OneModelPerLoadedFile ==
    de.initialized => Len(mm.models) = loaded_count(sc.models_dir.files)

\* C29: after load_models, whatever files failed and at whatever step
\* (deserialize, stat, algorithm detection), models, model_info and
\* model_weights have the same key set and every weight is 1.0.
C29_MapsAgree ==
    de.initialized =>
        /\ DictKeys(mm.models) = DictKeys(mm.model_info)
        /\ DictKeys(mm.models) = DictKeys(mm.model_weights)
        /\ \A i \in 1..Len(mm.model_weights) : mm.model_weights[i][2] = One

\* model_info and model_weights always agree, and name only models of the
\* registry
InfoAndWeightsAgree ==
    de.initialized =>
        /\ DictKeys(mm.model_info) = DictKeys(mm.model_weights)
        /\ DictKeys(mm.model_info) \subseteq DictKeys(mm.models)
        /\ \A i \in 1..Len(mm.model_weights) : mm.model_weights[i][2] = One

----------------------------------------------------------------------------
(* Claims about the request paths (SpecPaths) *)

BatchResponses ==
    {res.responses[k] : k \in {j \in 1..Len(res.responses) :
                                    res.responses[j].path = "batch"}}

\* The entries of results are those of requests, one each and in order
InOrder(rsp) ==
    /\ Len(rsp.results) = Len(rsp.requests)
    /\ rsp.batch_size = Len(rsp.requests)
    /\ \A i \in 1..Len(rsp.results) :
          /\ rsp.results[i].features = rsp.requests[i]
          /\ [prediction |-> rsp.results[i].prediction,
              confidence |-> rsp.results[i].confidence,
              threat_score |-> rsp.results[i].threat_score]
               = ScoreOver(hist.catalogs[1], rsp.requests[i])

\* C21: batch detection over an array of any length, the empty one
\* included, returns a results array of the same length whose i-th entry
\* holds the features, prediction, confidence and threat_score of the i-th
\* request.
C21_BatchSameLength ==
    \A rsp \in BatchResponses : rsp.status = 200 /\ InOrder(rsp)

\* Every batch that is answered with results is answered in order
AnsweredBatchInOrder ==
    \A rsp \in BatchResponses : rsp.status = 200 => InOrder(rsp)

\* A batch of string-labelled results fails only when it is empty
OnlyEmptyBatchFails ==
    \A rsp \in BatchResponses :
        (rsp.status = 500 /\ Names(mm.models) = <<"decision_tree">>) =>
            rsp.requests = <<>>

\* C23: every DetectionResult, on /detect, on each item of /batch-detect
\* and on a detection_request over the WebSocket, is forwarded to the
\* broadcast before the response is returned: /detect returns only after
\* its broadcast, and when one of the other two returns results every
\* subscriber open and listed has got a message for each of them.
C23_EveryResultForwarded ==
    [][/\ (req[1].pc # "delivered" /\ req'[1].pc = "delivered") =>
             \/ req[1].pc = "broadcast_done"
             \/ req[1].pc = "recorded" /\ active_connections = <<>>
       /\ Len(res'.responses) > Len(res.responses) =>
             \A c \in 1..MaxSockets :
                 (InList(active_connections, c) /\ sockets[c].state = "open") =>
                     Len(sockets'[c].got)
                       >= Len(sockets[c].got)
                            + Len(res'.responses[Len(res'.responses)].results)]_vars

\* /detect forwards: it returns only after its broadcast
DetectForwards ==
    [][(req[1].pc # "delivered" /\ req'[1].pc = "delivered") =>
          \/ req[1].pc = "broadcast_done"
          \/ req[1].pc = "recorded" /\ active_connections = <<>>]_vars

\* C27: a request that ends in an error response leaves the statistics as
\* they were before it: detections_performed, threats_detected and
\* total_processing_time are unchanged, for a batch by all of its items.
C27_ErrorLeavesStats ==
    [][(\/ req[1].pc # "error" /\ req'[1].pc = "error"
        \/ /\ Len(res'.responses) > Len(res.responses)
           /\ res'.responses[Len(res'.responses)].status = 500) =>
          /\ stats'.detections_performed = stats.detections_performed
          /\ stats'.threats_detected = stats.threats_detected
          /\ stats'.total_processing_time = stats.total_processing_time]_vars

\* Errors raised before detect leave the statistics alone: an invalid
\* detection_request and an empty batch
EarlyErrorLeavesStats ==
    [][(/\ Len(res'.responses) > Len(res.responses)
        /\ res'.responses[Len(res'.responses)].status = 500
        /\ res'.responses[Len(res'.responses)].requests = <<>>) =>
          stats' = stats]_vars

====
